---- MODULE Spec2Model ----
(***************************************************************************)
(* A model of python/parse_fast5_file.py: the streaming FASTA/FASTQ record *)
(* parser (readfq), the path classifier (split_all, check_fast5_path,      *)
(* check_is_pass), the descriptor parser (parse_fastq_description), the    *)
(* quality scorer (average_quality) and the run id extractor (get_runid).  *)
(*                                                                         *)
(* A Python str is a sequence of one-character strings.  An optional value *)
(* (None or a value) is a sequence of length 0 or 1.                       *)
(***************************************************************************)
EXTENDS Integers, Sequences, FiniteSets, TLC

VARIABLES
    \* readfq
    lines,      \* fp: the lines the iterator hands out, each with its "\n" if it has one
    pos,        \* fp's position: the number of lines the iterator has handed out
    last,       \* readfq's local last (None or a str)
    desc,       \* readfq's local desc
    name,       \* readfq's local name
    seqs,       \* readfq's local seqs (a list of str)
    seq,        \* readfq's local seq
    leng,       \* readfq's local leng
    pc,         \* where readfq stands
    out,        \* the records readfq has yielded so far
    recs,       \* history: the records the input was rendered from (<<>> for a raw stream)
    rendered,   \* history: whether the input was rendered from recs
    reads,      \* history: the indexes of the lines handed out, in order
    hdrAt,      \* history: the index of the line the current header was taken from
    events,     \* history: one entry per yield: the yield site and the lines it covers
    \* split_all, check_fast5_path, check_is_pass
    fpath,      \* the path given to check_fast5_path and check_is_pass
    avg_quality,\* check_is_pass's avg_quality (None or a number)
    path,       \* split_all's local path
    all_parts,  \* split_all's local all_parts
    cpc,        \* where the classification stands
    tag,        \* what check_fast5_path returned (None before it returns)
    verdict,    \* what check_is_pass returned (None before it returns)
    comps,      \* history: the components fpath was built from
    absolute,   \* history: whether fpath was built with a leading "/"
    \* parse_fastq_description
    description,        \* the argument
    descriptors,        \* the local descriptors
    di,                 \* the number of items the loop has been through
    description_dict,   \* the local description_dict
    dpc,                \* where parse_fastq_description stands
    tokens,             \* history: the tokens description was built from
    \* average_quality
    quality,    \* the argument
    phred,      \* the array np.array(list(quality.encode("utf8"))) - 33
    probs,      \* the array 10 ** (-phred / 10), in units of 10^-4
    mean,       \* np.mean of it
    score,      \* what average_quality returned (None before it returns)
    qpc,        \* where average_quality stands
    \* get_runid
    fastq,      \* the file at the path given: compressed or not, and what it holds
    line,       \* the local line (None before it is read)
    ti,         \* the number of tokens the loop has been through
    runid,      \* the local runid
    routcome,   \* "running", "returned" or the exception raised
    rpc         \* where get_runid stands

pvars == <<lines, pos, last, desc, name, seqs, seq, leng, pc, out, recs, rendered, reads, hdrAt, events>>

cvars == <<fpath, avg_quality, path, all_parts, cpc, tag, verdict, comps, absolute>>

dvars == <<description, descriptors, di, description_dict, dpc, tokens>>
qvars == <<quality, phred, probs, mean, score, qpc>>
rvars == <<fastq, line, ti, runid, routcome, rpc>>

vars == <<pvars, cvars, dvars, qvars, rvars>>

notReadfq == <<cvars, dvars, qvars, rvars>>
notClassify == <<pvars, dvars, qvars, rvars>>
notDescription == <<pvars, cvars, qvars, rvars>>
notQuality == <<pvars, cvars, dvars, rvars>>
notRunid == <<pvars, cvars, dvars, qvars>>

----------------------------------------------------------------------------
(* Python values *)

None == <<>>
Some(v) == <<v>>
\* Python truthiness of an optional str: None and "" are false
Falsy(o) == IF o = None THEN TRUE ELSE o[1] = <<>>

NL == "\n"

\* l[:-1]
Chop(l) == SubSeq(l, 1, Len(l) - 1)

\* "".join(ss)
RECURSIVE Join(_)
Join(ss) == IF ss = <<>> THEN <<>> ELSE Head(ss) \o Join(Tail(ss))

\* a record readfq yields: the tuple (desc, name, seq, qual)
Record(d, n, s, q) == [desc |-> d, name |-> n, seq |-> s, qual |-> q]

\* s.partition(" ")[0]
RECURSIVE PartitionHead(_)
PartitionHead(s) ==
    IF s = <<>> \/ Head(s) = " " THEN <<>>
    ELSE <<Head(s)>> \o PartitionHead(Tail(s))

----------------------------------------------------------------------------
(* The inputs of readfq *)

MaxLines == 4       \* the longest raw line stream
MaxRecs == 2        \* the most records a rendered stream holds

\* The bodies (the text before the newline) of the lines of a raw stream
RawBodies ==
    { <<>>, <<"a">>, <<"c", "a">>, <<"@">>, <<"@", "r">>, <<">", "s", " ", "k">>, <<"+">> }

\* A file's lines as iteration hands them out: every line ends with a newline,
\* except that the last one has none when the file does not end with one
\* (an unterminated last line is never empty).
LinesOf(bodies, terminated) ==
    [i \in 1..Len(bodies) |->
        IF i = Len(bodies) /\ ~terminated THEN bodies[i] ELSE bodies[i] \o <<NL>>]

Terminated(ls) == \A i \in 1..Len(ls) : ls[i][Len(ls[i])] = NL

\* The description of the record at position i of a rendered stream, and its name
DescAt(i) == IF i % 2 = 1 THEN <<"r">> ELSE <<"s", " ", "k">>
NameAt(i) == IF i % 2 = 1 THEN <<"r">> ELSE <<"s">>

\* The sequence lines of a rendered record
SeqLineLists ==
    { << <<>> >>, << <<"a">> >>, << <<"c", "a">> >>, << <<"c">>, <<"a">> >>,
      << <<"c", "a">>, <<>> >> }

\* A quality string of characters a..b: it starts with '@' and goes on with '+'
QChar(i) == IF i = 1 THEN "@" ELSE IF i = 2 THEN "+" ELSE "!"
QString(a, b) == [i \in 1..(b - a + 1) |-> QChar(a + i - 1)]

\* The ways a quality string of n characters is laid out in lines
QualLineLists(n) ==
    { << QString(1, n) >>, << QString(1, n), <<>> >> } \cup
    (IF n >= 2 THEN { << QString(1, 1), QString(2, n) >> } ELSE {})

SeqLen(sl) == Len(Join(sl))

FastqShapes ==
    { [kind |-> "fastq", marker |-> "@", seqlines |-> sl, quallines |-> ql] :
        sl \in SeqLineLists, ql \in UNION { QualLineLists(SeqLen(s)) : s \in SeqLineLists } }

\* A FASTA record starts with ">", or with "@" and has no separator line
FastaShapes ==
    { [kind |-> "fasta", marker |-> m, seqlines |-> sl, quallines |-> <<>>] :
        m \in {">", "@"}, sl \in { <<>>, << <<"a">> >>, << <<"c">>, <<"a">> >>, << <<"c", "a">>, <<>> >> } }

\* The records an input is rendered from: in a FASTQ record the quality is as long
\* as the sequence
Shapes == { s \in FastqShapes : SeqLen(s.quallines) = SeqLen(s.seqlines) } \cup FastaShapes

RenderRec(r, i) ==
    << <<r.marker>> \o DescAt(i) >> \o r.seqlines \o
    (IF r.kind = "fastq" THEN << <<"+">> >> \o r.quallines ELSE <<>>)

RECURSIVE RenderFrom(_, _)
RenderFrom(rs, i) ==
    IF i > Len(rs) THEN <<>> ELSE RenderRec(rs[i], i) \o RenderFrom(rs, i + 1)

Render(rs) == RenderFrom(rs, 1)

\* The record a rendered record stands for
Expected(r, i) ==
    [desc |-> DescAt(i), name |-> NameAt(i), seq |-> Join(r.seqlines),
     qual |-> IF r.kind = "fastq" THEN Some(Join(r.quallines)) ELSE None]

----------------------------------------------------------------------------
(* readfq *)


\* line 94: l[0] in ">@"
IsHeaderAnyLine(l) == TRUE
IsHeader(l) == l[1] \in {">", "@"}

\* line 102: last = l[:-1], the line that ended the sequence is kept
LookaheadDropped(l) == None
Lookahead(l) == Some(Chop(l))

\* line 114: leng >= len(seq)
EnoughStrict(n, s) == n > Len(s)
Enough(n, s) == n >= Len(s)

\* line 119: the record of a quality block the stream cut short
DegradedKeepsQuality(d, n, s, q) == Record(d, n, s, Some(Join(q)))
Degraded(d, n, s, q) == Record(d, n, s, None)

\* line 105: not last or last[0] != "+"
IsFasta(l) == IF Falsy(l) THEN TRUE ELSE l[1][1] /= "+"

\* the line the iterator hands out next
NextLine == lines[pos + 1]

Fetch ==
    /\ pos < Len(lines)
    /\ pos' = pos + 1
    /\ reads' = Append(reads, pos + 1)

InitReadfq ==
    /\ \/ \E k \in 0..MaxLines : \E b \in [1..k -> RawBodies] :
            \E t \in { x \in BOOLEAN : x \/ (k > 0 /\ b[k] /= <<>>) } :
                /\ lines = LinesOf(b, t)
                /\ recs = <<>>
                /\ rendered = FALSE
       \/ \E k \in 1..MaxRecs : \E rs \in [1..k -> Shapes] :
            LET bodies == Render(rs)
            IN  \E t \in { x \in BOOLEAN : x \/ bodies[Len(bodies)] /= <<>> } :
                    /\ lines = LinesOf(bodies, t)
                    /\ recs = rs
                    /\ rendered = TRUE
    /\ pos = 0
    /\ last = None
    /\ desc = <<>>
    /\ name = <<>>
    /\ seqs = <<>>
    /\ seq = <<>>
    /\ leng = 0
    /\ pc = "scan"
    /\ out = <<>>
    /\ reads = <<>>
    /\ hdrAt = 0
    /\ events = <<>>

\* line 92, last is set: the lookahead line is the header
SkipScan ==
    /\ pc = "scan"
    /\ ~Falsy(last)
    /\ pc' = "hdr"
    /\ UNCHANGED <<lines, pos, last, desc, name, seqs, seq, leng, out, recs, rendered, reads, hdrAt, events>>
    /\ UNCHANGED notReadfq

\* lines 93-96: one iteration of the search for the next header
ScanRead ==
    /\ pc = "scan"
    /\ Falsy(last)
    /\ Fetch
    /\ IF IsHeader(NextLine)
       THEN last' = Some(Chop(NextLine)) /\ pc' = "hdr"
       ELSE UNCHANGED <<last, pc>>
    /\ UNCHANGED <<lines, desc, name, seqs, seq, leng, out, recs, rendered, hdrAt, events>>
    /\ UNCHANGED notReadfq

\* line 93: the iterator is exhausted
ScanEOF ==
    /\ pc = "scan"
    /\ Falsy(last)
    /\ pos = Len(lines)
    /\ pc' = "hdr"
    /\ UNCHANGED <<lines, pos, last, desc, name, seqs, seq, leng, out, recs, rendered, reads, hdrAt, events>>
    /\ UNCHANGED notReadfq

\* lines 97-99
HeaderCheck ==
    /\ pc = "hdr"
    /\ IF Falsy(last)
       THEN /\ pc' = "done"
            /\ UNCHANGED <<desc, name, seqs, last, hdrAt>>
       ELSE /\ desc' = Tail(last[1])
            /\ name' = PartitionHead(Tail(last[1]))
            /\ seqs' = <<>>
            /\ last' = None
            /\ hdrAt' = pos
            /\ pc' = "seq"
    /\ UNCHANGED <<lines, pos, seq, leng, out, recs, rendered, reads, events>>
    /\ UNCHANGED notReadfq

\* lines 100-104: one iteration of the sequence loop
SeqRead ==
    /\ pc = "seq"
    /\ Fetch
    /\ IF NextLine[1] \in {"@", "+", ">"}
       THEN last' = Lookahead(NextLine) /\ pc' = "emit" /\ UNCHANGED seqs
       ELSE seqs' = Append(seqs, Chop(NextLine)) /\ UNCHANGED <<last, pc>>
    /\ UNCHANGED <<lines, desc, name, seq, leng, out, recs, rendered, hdrAt, events>>
    /\ UNCHANGED notReadfq

\* line 100: the iterator is exhausted
SeqEOF ==
    /\ pc = "seq"
    /\ pos = Len(lines)
    /\ pc' = "emit"
    /\ UNCHANGED <<lines, pos, last, desc, name, seqs, seq, leng, out, recs, rendered, reads, hdrAt, events>>
    /\ UNCHANGED notReadfq

\* lines 105-108: a fasta record
YieldFasta ==
    /\ pc = "emit"
    /\ IsFasta(last)
    /\ out' = Append(out, Record(desc, name, Join(seqs), None))
    /\ events' = Append(events, [site |-> "fasta", hdr |-> hdrAt,
                                 end |-> IF last = None THEN 0 ELSE pos])
    /\ pc' = IF Falsy(last) THEN "done" ELSE "scan"
    /\ UNCHANGED <<lines, pos, last, desc, name, seqs, seq, leng, recs, rendered, reads, hdrAt>>
    /\ UNCHANGED notReadfq

\* lines 109-110: a fastq record
BeginQual ==
    /\ pc = "emit"
    /\ ~IsFasta(last)
    /\ seq' = Join(seqs)
    /\ leng' = 0
    /\ seqs' = <<>>
    /\ pc' = "qual"
    /\ UNCHANGED <<lines, pos, last, desc, name, out, recs, rendered, reads, hdrAt, events>>
    /\ UNCHANGED notReadfq

\* lines 111-117: one iteration of the quality loop
QualRead ==
    /\ pc = "qual"
    /\ Fetch
    /\ seqs' = Append(seqs, Chop(NextLine))
    /\ leng' = leng + Len(NextLine) - 1
    /\ IF Enough(leng', seq)
       THEN /\ last' = None
            /\ out' = Append(out, Record(desc, name, seq, Some(Join(seqs'))))
            /\ events' = Append(events, [site |-> "fastq", hdr |-> hdrAt, end |-> pos'])
            /\ pc' = "after"
       ELSE UNCHANGED <<last, out, events, pc>>
    /\ UNCHANGED <<lines, desc, name, seq, recs, rendered, hdrAt>>
    /\ UNCHANGED notReadfq

\* line 111: the iterator is exhausted
QualEOF ==
    /\ pc = "qual"
    /\ pos = Len(lines)
    /\ pc' = "after"
    /\ UNCHANGED <<lines, pos, last, desc, name, seqs, seq, leng, out, recs, rendered, reads, hdrAt, events>>
    /\ UNCHANGED notReadfq

\* lines 118-120
AfterQual ==
    /\ pc = "after"
    /\ IF ~Falsy(last)
       THEN /\ out' = Append(out, Degraded(desc, name, seq, seqs))
            /\ events' = Append(events, [site |-> "degraded", hdr |-> hdrAt, end |-> 0])
            /\ pc' = "done"
       ELSE /\ pc' = "scan"
            /\ UNCHANGED <<out, events>>
    /\ UNCHANGED <<lines, pos, last, desc, name, seqs, seq, leng, recs, rendered, reads, hdrAt>>
    /\ UNCHANGED notReadfq

NextReadfq ==
    \/ SkipScan
    \/ ScanRead
    \/ ScanEOF
    \/ HeaderCheck
    \/ SeqRead
    \/ SeqEOF
    \/ YieldFasta
    \/ BeginQual
    \/ QualRead
    \/ QualEOF
    \/ AfterQual

IdleReadfq ==
    /\ lines = <<>> /\ pos = 0 /\ last = None /\ desc = <<>> /\ name = <<>>
    /\ seqs = <<>> /\ seq = <<>> /\ leng = 0 /\ pc = "idle" /\ out = <<>>
    /\ recs = <<>> /\ rendered = FALSE /\ reads = <<>> /\ hdrAt = 0 /\ events = <<>>

IdleClassify ==
    /\ fpath = <<>> /\ avg_quality = None /\ path = <<>> /\ all_parts = <<>>
    /\ cpc = "idle" /\ tag = None /\ verdict = None /\ comps = <<>> /\ absolute = FALSE

IdleDescription ==
    /\ description = <<>> /\ descriptors = <<>> /\ di = 0 /\ description_dict = <<>>
    /\ dpc = "idle" /\ tokens = <<>>

IdleQuality ==
    /\ quality = <<>> /\ phred = <<>> /\ probs = <<>> /\ mean = None /\ score = None
    /\ qpc = "idle"

IdleRunid ==
    /\ fastq = [gz |-> FALSE, holds |-> "text", first |-> <<>>] /\ line = None /\ ti = 0
    /\ runid = <<>> /\ routcome = "idle" /\ rpc = "idle"

Init == InitReadfq /\ IdleClassify /\ IdleDescription /\ IdleQuality /\ IdleRunid
Next == NextReadfq
Spec == Init /\ [][Next]_vars

\* The consumer iterates the generator until it is exhausted
SpecFair == Spec /\ WF_vars(Next)

----------------------------------------------------------------------------
(* Claims about readfq *)

Starts(i, cs) == lines[i][1] \in cs
Chopped(a, b) == [k \in 1..(b - a + 1) |-> Chop(lines[a + k - 1])]
AllOfKind(k) == rendered /\ \A i \in 1..Len(recs) : recs[i].kind = k
ExpectedOut == [i \in 1..Len(recs) |-> Expected(recs[i], i)]
OutIsPrefixOfExpected ==
    /\ Len(out) <= Len(recs)
    /\ \A i \in 1..Len(out) : out[i] = ExpectedOut[i]

\* C1: every yielded record whose quality is present has a quality exactly as long
\* as its sequence (a longer quality block is cut to the sequence length).
C1_QualityAsLongAsSequence ==
    \A i \in 1..Len(out) :
        out[i].qual /= None => Len(out[i].qual[1]) = Len(out[i].seq)

\* C2: on a valid FASTQ input of newline-terminated lines whose records each have a
\* quality as long as the sequence, readfq yields one record per input record, in
\* input order, each with the record's description, name and sequence and with the
\* quality set and as long as the sequence.
C2_ValidFastqOneRecordEach ==
    (AllOfKind("fastq") /\ Terminated(lines)) =>
        /\ OutIsPrefixOfExpected
        /\ \A i \in 1..Len(out) :
              out[i].qual /= None /\ Len(out[i].qual[1]) = Len(out[i].seq)
        /\ pc = "done" => out = ExpectedOut

C2_Witness ==
    /\ pc = "done"
    /\ AllOfKind("fastq")
    /\ Terminated(lines)
    /\ Len(recs) = 2
    /\ Len(out) = 2
    /\ Len(recs[1].quallines) = 2
    /\ Len(out[2].seq) = 2

\* The stream ended after the separator of the current header, at line p, with fewer
\* quality characters than the sequence has
CutShortAt(p) ==
    /\ hdrAt > 0
    /\ p > hdrAt
    /\ \A k \in (hdrAt + 1)..(p - 1) : ~Starts(k, {"@", "+", ">"})
    /\ Starts(p, {"+"})
    /\ Len(Join(Chopped(p + 1, Len(lines)))) < Len(Join(Chopped(hdrAt + 1, p - 1)))

\* C3: when the stream ends after a '+' separator and before the quality read
\* reaches the sequence length, readfq yields exactly one record for that header,
\* with the sequence kept and no quality, and it is the last record.
C3_CutShortQualityDegrades ==
    \A p \in 1..Len(lines) :
        (pc = "done" /\ CutShortAt(p)) =>
            /\ out /= <<>>
            /\ out[Len(out)] =
                 Record(Tail(Chop(lines[hdrAt])), PartitionHead(Tail(Chop(lines[hdrAt]))),
                        Join(Chopped(hdrAt + 1, p - 1)), None)
            /\ Cardinality({ i \in 1..Len(events) : events[i].hdr = hdrAt }) = 1
            /\ events[Len(events)].hdr = hdrAt

C3_Witness ==
    /\ pc = "done"
    /\ \E p \in 1..Len(lines) : CutShortAt(p) /\ p < Len(lines)
    /\ leng > 0
    /\ out[Len(out)].seq /= <<>>
    /\ out[Len(out)].qual = None

LineTerminated(i) == lines[i][Len(lines[i])] = NL
HeaderLines == { i \in 1..Len(lines) : Starts(i, {">", "@"}) }

\* C9: a record whose sequence lines are ended by a header line or by the end of
\* the stream is yielded without quality and with the accumulated sequence lines
\* as its sequence; the (newline-terminated) line that ended the sequence is the
\* header of the next record yielded, so that a stream of N FASTA records yields
\* exactly N records, in input order.
C9_FastaLookaheadKept ==
    /\ \A i \in 1..Len(events) :
          LET e == events[i]
              stop == IF e.end = 0 THEN Len(lines) + 1 ELSE e.end
          IN  e.site = "fasta" =>
                /\ out[i].qual = None
                /\ out[i].desc = Tail(Chop(lines[e.hdr]))
                /\ out[i].seq = Join(Chopped(e.hdr + 1, stop - 1))
                /\ \A k \in (e.hdr + 1)..(stop - 1) : ~Starts(k, {"@", "+", ">"})
                /\ (e.end /= 0 /\ LineTerminated(e.end)) =>
                      /\ Starts(e.end, {">", "@"})
                      /\ i < Len(events) => events[i + 1].hdr = e.end
                      /\ pc = "done" => i < Len(events)
    /\ (AllOfKind("fasta") /\ Terminated(lines)) =>
          /\ OutIsPrefixOfExpected
          /\ pc = "done" => out = ExpectedOut
    /\ (Terminated(lines) /\ pc = "done" /\ \A i \in 1..Len(lines) : ~Starts(i, {"+"})) =>
          /\ Len(out) = Cardinality(HeaderLines)
          /\ { events[i].hdr : i \in 1..Len(events) } = HeaderLines
          /\ \A i \in 1..(Len(events) - 1) : events[i].hdr < events[i + 1].hdr

C9_Witness ==
    /\ pc = "done"
    /\ ~rendered
    /\ Terminated(lines)
    /\ Len(out) = 2
    /\ events[1].site = "fasta" /\ events[1].end = 3
    /\ events[2].site = "fasta" /\ events[2].hdr = 3
    /\ out[1].seq /= <<>>

ReadOnceInOrder ==
    /\ reads = [i \in 1..pos |-> i]
    /\ pos <= Len(lines)
    /\ pc = "done" => pos = Len(lines)
    /\ HeaderLines = {} => out = <<>>

\* C10: on every finite line stream readfq terminates, having read each line
\* exactly once, in order, and never again; a stream without any header line
\* yields no record.
C10_SinglePassTerminates == []ReadOnceInOrder /\ <>(pc = "done")

C10_Witness ==
    /\ pc = "done"
    /\ Len(lines) = 3
    /\ HeaderLines = {}
    /\ reads = <<1, 2, 3>>
    /\ out = <<>>

----------------------------------------------------------------------------
(* split_all, check_fast5_path, check_is_pass *)

MaxDepth == 3       \* the most components a generated path has

sPass == <<"p", "a", "s", "s">>
sFail == <<"f", "a", "i", "l">>
sFastqPass == <<"f", "a", "s", "t", "q", "_", "p", "a", "s", "s">>
sData == <<"d", "a", "t", "a">>
sRun1 == <<"r", "u", "n", "1">>
sBarcode01 == <<"b", "a", "r", "c", "o", "d", "e", "0", "1">>
sFile == <<"f", "i", "l", "e", ".", "f", "a", "s", "t", "q">>

Components == { sPass, sFail, sFastqPass, sRun1, sBarcode01, sFile }

\* The components joined with "/", after a leading "/" when absolute
RECURSIVE JoinPath(_, _)
JoinPath(cs, abs) ==
    IF cs = <<>> THEN (IF abs THEN <<"/">> ELSE <<>>)
    ELSE IF Len(cs) = 1 THEN (IF abs THEN <<"/">> ELSE <<>>) \o cs[1]
    ELSE JoinPath(SubSeq(cs, 1, Len(cs) - 1), abs) \o <<"/">> \o cs[Len(cs)]

ComponentLists == UNION { [1..k -> Components] : k \in 0..MaxDepth }

\* The paths of the documented examples
ExampleLists ==
    { <<sData, sRun1, sFastqPass, sBarcode01, sFile>>,
      <<sData, sRun1, sPass, sBarcode01, sFile>>,
      <<sData, sRun1, sFile>> }

AvgQualities == { None, Some(6), Some(7), Some(8) }

\* sub in s, for two str
Contains(s, sub) ==
    \E i \in 1..(Len(s) - Len(sub) + 1) : SubSeq(s, i, i + Len(sub) - 1) = sub

\* s.rstrip("/")
RECURSIVE RStripSlash(_)
RStripSlash(s) ==
    IF s /= <<>> /\ s[Len(s)] = "/" THEN RStripSlash(SubSeq(s, 1, Len(s) - 1)) ELSE s

\* p.rfind("/") + 1
AfterLastSlash(s) ==
    LET at == { k \in 1..Len(s) : s[k] = "/" }
    IN  IF at = {} THEN 0 ELSE CHOOSE k \in at : \A j \in at : j <= k

\* os.path.split(p) of posixpath: (head, tail)
OsPathSplit(s) ==
    LET i == AfterLastSlash(s)
        head == SubSeq(s, 1, i)
        tail == SubSeq(s, i + 1, Len(s))
    IN  IF head /= <<>> /\ (\E k \in 1..Len(head) : head[k] /= "/")
        THEN <<RStripSlash(head), tail>>
        ELSE <<head, tail>>

\* lines 151, 153: x in ("pass", "fail")
ContainsPassOrFail(c) == Contains(c, sPass) \/ Contains(c, sFail)
InPassFail(c) == c \in { sPass, sFail }

\* "{}_{}".format(a, b)
Format2(a, b) == a \o <<"_">> \o b
Format3(a, b, c) == a \o <<"_">> \o b \o <<"_">> \o c

\* lines 150-158: negative indexes count from the end, and an index out of range
\* raises IndexError, which the except clause answers with the last component
Fast5PathTag(fs) ==
    LET n == Len(fs)
    IN  IF n < 2 THEN fs[n]
        ELSE IF InPassFail(fs[n - 1]) THEN Format2(fs[n - 1], fs[n])
        ELSE IF n < 3 THEN fs[n]
        ELSE IF InPassFail(fs[n - 2]) THEN Format3(fs[n - 2], fs[n - 1], fs[n])
        ELSE fs[n]

\* lines 30-42
QualityFirstVerdict(dir, q) ==
    IF q /= None THEN q[1] >= 7
    ELSE IF Contains(dir, sPass) THEN TRUE
    ELSE IF Contains(dir, sFail) THEN FALSE
    ELSE TRUE
IsPassVerdict(dir, q) ==
    IF Contains(dir, sPass) THEN TRUE
    ELSE IF Contains(dir, sFail) THEN FALSE
    ELSE IF q /= None THEN q[1] >= 7
    ELSE TRUE

InitClassify ==
    /\ \E cs \in ComponentLists \cup ExampleLists, a \in BOOLEAN :
          /\ comps = cs
          /\ absolute = a
          /\ fpath = JoinPath(cs, a)
    /\ avg_quality \in AvgQualities
    /\ path = fpath
    /\ all_parts = <<>>
    /\ cpc = "split"
    /\ tag = None
    /\ verdict = None

\* lines 130, 132-134: the sentinel for absolute paths
SplitAbsolute ==
    /\ cpc = "split"
    /\ OsPathSplit(path)[1] = path
    /\ all_parts' = <<OsPathSplit(path)[1]>> \o all_parts
    /\ cpc' = "classify"
    /\ UNCHANGED <<fpath, avg_quality, path, tag, verdict, comps, absolute>>
    /\ UNCHANGED notClassify

\* lines 130, 135-137: the sentinel for relative paths
SplitRelative ==
    /\ cpc = "split"
    /\ OsPathSplit(path)[1] /= path
    /\ OsPathSplit(path)[2] = path
    /\ all_parts' = <<OsPathSplit(path)[2]>> \o all_parts
    /\ cpc' = "classify"
    /\ UNCHANGED <<fpath, avg_quality, path, tag, verdict, comps, absolute>>
    /\ UNCHANGED notClassify

\* lines 130, 138-140: one component split off
SplitDescend ==
    /\ cpc = "split"
    /\ OsPathSplit(path)[1] /= path
    /\ OsPathSplit(path)[2] /= path
    /\ path' = OsPathSplit(path)[1]
    /\ all_parts' = <<OsPathSplit(path)[2]>> \o all_parts
    /\ UNCHANGED <<fpath, avg_quality, cpc, tag, verdict, comps, absolute>>
    /\ UNCHANGED notClassify

\* lines 149-158
CheckFast5Path ==
    /\ cpc = "classify"
    /\ tag' = Some(Fast5PathTag(all_parts))
    /\ cpc' = "ispass"
    /\ UNCHANGED <<fpath, avg_quality, path, all_parts, verdict, comps, absolute>>
    /\ UNCHANGED notClassify

\* lines 29-42
CheckIsPass ==
    /\ cpc = "ispass"
    /\ verdict' = Some(IsPassVerdict(OsPathSplit(fpath)[1], avg_quality))
    /\ cpc' = "done"
    /\ UNCHANGED <<fpath, avg_quality, path, all_parts, tag, comps, absolute>>
    /\ UNCHANGED notClassify

NextClassify ==
    \/ SplitAbsolute
    \/ SplitRelative
    \/ SplitDescend
    \/ CheckFast5Path
    \/ CheckIsPass

InitC == InitClassify /\ IdleReadfq /\ IdleDescription /\ IdleQuality /\ IdleRunid
SpecClassify == InitC /\ [][NextClassify]_vars

----------------------------------------------------------------------------
(* Claims about the path classifier *)

ExamplePath(cs) == JoinPath(cs, TRUE)
NComps == Len(comps)
\* the directory portion of fpath: everything but its last component
DirPortion == JoinPath(SubSeq(comps, 1, NComps - 1), absolute)

\* C4 as stated: "/data/run1/fastq_pass/barcode01/file.fastq" is tagged
\* "pass_barcode01_file.fastq" and "/data/run1/file.fastq" is tagged "file.fastq".
C4_AsStated ==
    cpc = "done" =>
        /\ fpath = ExamplePath(<<sData, sRun1, sFastqPass, sBarcode01, sFile>>) =>
              tag = Some(Format3(sPass, sBarcode01, sFile))
        /\ fpath = ExamplePath(<<sData, sRun1, sFile>>) => tag = Some(sFile)

\* C4 (amended): "/data/run1/fastq_pass/barcode01/file.fastq" is tagged "file.fastq",
\* "/data/run1/pass/barcode01/file.fastq" is tagged "pass_barcode01_file.fastq" and
\* "/data/run1/file.fastq" is tagged "file.fastq": a path whose third-to-last
\* component is exactly "pass" or "fail" and whose second-to-last is neither is
\* tagged "{third-to-last}_{second-to-last}_{last}", and a path whose second- and
\* third-to-last components are neither is tagged with its last component.
C4_ExactPassFailTag ==
    cpc = "done" =>
        /\ fpath = ExamplePath(<<sData, sRun1, sFastqPass, sBarcode01, sFile>>) =>
              tag = Some(sFile)
        /\ fpath = ExamplePath(<<sData, sRun1, sPass, sBarcode01, sFile>>) =>
              tag = Some(Format3(sPass, sBarcode01, sFile))
        /\ fpath = ExamplePath(<<sData, sRun1, sFile>>) => tag = Some(sFile)
        /\ (NComps >= 3 /\ comps[NComps - 2] \in {sPass, sFail}
                /\ comps[NComps - 1] \notin {sPass, sFail}) =>
              tag = Some(comps[NComps - 2] \o <<"_">> \o comps[NComps - 1]
                            \o <<"_">> \o comps[NComps])
        /\ (NComps >= 1
                /\ (NComps >= 2 => comps[NComps - 1] \notin {sPass, sFail})
                /\ (NComps >= 3 => comps[NComps - 2] \notin {sPass, sFail})) =>
              tag = Some(comps[NComps])

C4_Witness ==
    /\ cpc = "done"
    /\ fpath = ExamplePath(<<sData, sRun1, sFastqPass, sBarcode01, sFile>>)
    /\ all_parts = <<<<"/">>, sData, sRun1, sFastqPass, sBarcode01, sFile>>
    /\ tag = Some(sFile)

\* C5 as stated: check_is_pass returns false for every path whose directory portion
\* contains "fail", whatever avg_quality is.
C5_AsStated ==
    (cpc = "done" /\ NComps >= 1 /\ Contains(DirPortion, sFail)) => verdict = Some(FALSE)

\* C5 (amended): check_is_pass returns false for every path whose directory portion
\* contains "fail" and does not contain "pass", whatever avg_quality is; when the
\* directory portion contains "pass" it returns true, also when it contains "fail".
C5_FailWithoutPassIsFalse ==
    (cpc = "done" /\ NComps >= 1) =>
        /\ (Contains(DirPortion, sFail) /\ ~Contains(DirPortion, sPass)) =>
              verdict = Some(FALSE)
        /\ Contains(DirPortion, sPass) => verdict = Some(TRUE)

C5_Witness ==
    /\ cpc = "done"
    /\ NComps = 3
    /\ Contains(DirPortion, sFail)
    /\ ~Contains(DirPortion, sPass)
    /\ avg_quality = Some(8)
    /\ verdict = Some(FALSE)

----------------------------------------------------------------------------
(* parse_fastq_description *)

MaxTokens == 3      \* the most tokens a description is built from

\* s.split(c) for a one-character separator c: the pieces between the separators,
\* empty pieces included
RECURSIVE SplitOn(_, _)
SplitOn(s, c) ==
    LET at == { k \in 1..Len(s) : s[k] = c }
    IN  IF at = {} THEN <<s>>
        ELSE LET k == CHOOSE j \in at : \A i \in at : j <= i
             IN  <<SubSeq(s, 1, k - 1)>> \o SplitOn(SubSeq(s, k + 1, Len(s)), c)

\* sep.join(ss) for a one-character separator
RECURSIVE JoinWith(_, _)
JoinWith(ss, c) ==
    IF ss = <<>> THEN <<>>
    ELSE IF Len(ss) = 1 THEN ss[1]
    ELSE ss[1] \o <<c>> \o JoinWith(Tail(ss), c)

DescriptionTokens ==
    { <<>>, <<"r">>, <<"k", "=", "v">>, <<"k", "=", "v", "=", "w">>, <<"k", "=">>,
      <<"q", "=", "w">> }

TokenLists == UNION { [1..k -> DescriptionTokens] : k \in 0..MaxTokens }

\* line 84: "=" in item
HasEquals(item) == \E k \in 1..Len(item) : item[k] = "="

\* d[k] = v
DictSet(d, k, v) == [x \in DOMAIN d \cup {k} |-> IF x = k THEN v ELSE d[x]]

InitDescription ==
    /\ tokens \in TokenLists
    /\ description = JoinWith(tokens, " ")
    /\ descriptors = <<>>
    /\ di = 0
    /\ description_dict = <<>>
    /\ dpc = "split"

\* lines 80-81
SplitDescription ==
    /\ dpc = "split"
    /\ description_dict' = <<>>
    /\ descriptors' = SplitOn(description, " ")
    /\ dpc' = "items"
    /\ UNCHANGED <<description, di, tokens>>
    /\ UNCHANGED notDescription

\* lines 83-86: an item with "="
RecordItem ==
    /\ dpc = "items"
    /\ di < Len(descriptors)
    /\ HasEquals(descriptors[di + 1])
    /\ LET bits == SplitOn(descriptors[di + 1], "=")
       IN  description_dict' = DictSet(description_dict, bits[1], bits[2])
    /\ di' = di + 1
    /\ UNCHANGED <<description, descriptors, dpc, tokens>>
    /\ UNCHANGED notDescription

\* lines 83-84: an item without "="
SkipItem ==
    /\ dpc = "items"
    /\ di < Len(descriptors)
    /\ ~HasEquals(descriptors[di + 1])
    /\ di' = di + 1
    /\ UNCHANGED <<description, descriptors, description_dict, dpc, tokens>>
    /\ UNCHANGED notDescription

\* line 87
ReturnDict ==
    /\ dpc = "items"
    /\ di = Len(descriptors)
    /\ dpc' = "done"
    /\ UNCHANGED <<description, descriptors, di, description_dict, tokens>>
    /\ UNCHANGED notDescription

NextDescription ==
    \/ SplitDescription
    \/ RecordItem
    \/ SkipItem
    \/ ReturnDict

InitD == InitDescription /\ IdleReadfq /\ IdleClassify /\ IdleQuality /\ IdleRunid
SpecDescription == InitD /\ [][NextDescription]_vars

----------------------------------------------------------------------------
(* Claims about parse_fastq_description *)

\* the text before the first "=" of a token, and everything after it
FirstEquals(t) == CHOOSE k \in 1..Len(t) : t[k] = "=" /\ \A j \in 1..(k - 1) : t[j] /= "="
KeyOf(t) == SubSeq(t, 1, FirstEquals(t) - 1)
ValueOf(t) == SubSeq(t, FirstEquals(t) + 1, Len(t))
KeyedTokens == { i \in 1..Len(tokens) : HasEquals(tokens[i]) }
LastWith(k) ==
    CHOOSE i \in KeyedTokens :
        KeyOf(tokens[i]) = k /\ \A j \in KeyedTokens : KeyOf(tokens[j]) = k => j <= i

\* C6: every token with one or more "=" maps the text before its first "=" to
\* everything after its first "=" (the last token of a key wins), and the tokens
\* without "=" contribute nothing.
C6_ValueIsEverythingAfterFirstEquals ==
    dpc = "done" =>
        /\ DOMAIN description_dict = { KeyOf(tokens[i]) : i \in KeyedTokens }
        /\ \A k \in DOMAIN description_dict :
              description_dict[k] = ValueOf(tokens[LastWith(k)])

\* What the code does instead: the value is the text between the first and the
\* second "=" of the token.
ValueUpToSecondEquals ==
    dpc = "done" =>
        /\ DOMAIN description_dict = { KeyOf(tokens[i]) : i \in KeyedTokens }
        /\ \A k \in DOMAIN description_dict :
              description_dict[k] = SplitOn(ValueOf(tokens[LastWith(k)]), "=")[1]

----------------------------------------------------------------------------
(* average_quality *)

MaxQualLen == 3     \* the longest quality string

PhredOffset == 33   \* line 60: - 33
Decades == 4        \* the probabilities are held in units of 10^-Decades

\* The quality characters of the model and their code points (Phred 0, 10, 20, 30, 40)
QualityChars == { "!", "+", "5", "?", "I" }
Ord(c) ==
    CASE c = "!" -> 33 [] c = "+" -> 43 [] c = "5" -> 53 [] c = "?" -> 63 [] c = "I" -> 73

QualityStrings == UNION { [1..k -> QualityChars] : k \in 0..MaxQualLen }

RECURSIVE Pow10(_)
Pow10(k) == IF k = 0 THEN 1 ELSE 10 * Pow10(k - 1)

RECURSIVE Sum(_)
Sum(xs) == IF xs = <<>> THEN 0 ELSE Head(xs) + Sum(Tail(xs))

\* A float: not a number, infinite, a value known exactly, or one strictly between
\* two bounds
NaN == [kind |-> "nan", lo |-> 0, hi |-> 0]
Inf == [kind |-> "inf", lo |-> 0, hi |-> 0]
Exactly(v) == [kind |-> "exact", lo |-> v, hi |-> v]
Between(a, b) == [kind |-> "between", lo |-> a, hi |-> b]

\* line 56: np.mean(xs), a ratio; the mean of an empty array is 0/0, nan (with a
\* RuntimeWarning and no exception)
NpMeanZeroOfEmpty(xs) ==
    IF xs = <<>> THEN [nan |-> FALSE, num |-> 0, den |-> 1]
    ELSE [nan |-> FALSE, num |-> Sum(xs), den |-> Len(xs) * Pow10(Decades)]
NpMean(xs) ==
    IF xs = <<>> THEN [nan |-> TRUE, num |-> 0, den |-> 1]
    ELSE [nan |-> FALSE, num |-> Sum(xs), den |-> Len(xs) * Pow10(Decades)]

\* line 55: -10 * np.log10(m): nan of nan, inf of 0, 10 k of 10^-k, and a value
\* between 10 k and 10 (k + 1) of a ratio between 10^-(k+1) and 10^-k
MinusTenLog10(m) ==
    IF m.nan THEN NaN
    ELSE IF m.num = 0 THEN Inf
    ELSE LET k == CHOOSE j \in 0..Decades :
                      /\ m.num * Pow10(j) <= m.den
                      /\ m.num * Pow10(j + 1) > m.den
         IN  IF m.num * Pow10(k) = m.den THEN Exactly(10 * k)
             ELSE Between(10 * k, 10 * (k + 1))

InitQuality ==
    /\ quality \in QualityStrings
    /\ phred = <<>>
    /\ probs = <<>>
    /\ mean = None
    /\ score = None
    /\ qpc = "encode"

\* line 60: np.array(list(quality.encode("utf8"))) - 33
Encode ==
    /\ qpc = "encode"
    /\ phred' = [i \in 1..Len(quality) |-> Ord(quality[i]) - PhredOffset]
    /\ qpc' = "power"
    /\ UNCHANGED <<quality, probs, mean, score>>
    /\ UNCHANGED notQuality

\* lines 57-62: 10 ** (-phred / 10)
ErrorProbabilities ==
    /\ qpc = "power"
    /\ probs' = [i \in 1..Len(phred) |-> Pow10(Decades - phred[i] \div 10)]
    /\ qpc' = "mean"
    /\ UNCHANGED <<quality, phred, mean, score>>
    /\ UNCHANGED notQuality

\* line 56
Mean ==
    /\ qpc = "mean"
    /\ mean' = Some(NpMean(probs))
    /\ qpc' = "log"
    /\ UNCHANGED <<quality, phred, probs, score>>
    /\ UNCHANGED notQuality

\* line 55: the value returned
ReturnScore ==
    /\ qpc = "log"
    /\ score' = Some(MinusTenLog10(mean[1]))
    /\ qpc' = "done"
    /\ UNCHANGED <<quality, phred, probs, mean>>
    /\ UNCHANGED notQuality

NextQuality ==
    \/ Encode
    \/ ErrorProbabilities
    \/ Mean
    \/ ReturnScore

InitQ == InitQuality /\ IdleReadfq /\ IdleClassify /\ IdleDescription /\ IdleRunid
SpecQuality == InitQ /\ [][NextQuality]_vars

----------------------------------------------------------------------------
(* Claims about average_quality *)

ScoresOfUniformQualities ==
    qpc = "done" =>
        /\ quality = <<"!", "!", "!">> => score = Some(Exactly(0))
        /\ quality = <<"I", "I", "I">> => score = Some(Exactly(40))

----------------------------------------------------------------------------
(* get_runid *)

MaxRunTokens == 2   \* the most tokens the first line of a file holds

sRunid == <<"r", "u", "n", "i", "d">>

RunTokens ==
    { <<"@", "r">>, sRunid, sRunid \o <<"=">>, sRunid \o <<"=", "a", "b">>,
      sRunid \o <<"x", "=", "c", "=", "d">>, <<"k", "=", "v">> }

\* The files: one that cannot be opened, one whose bytes are not text, an empty
\* one, and the text files whose first line holds the tokens given; each under a
\* name that ends with ".gz" or not
FirstLines ==
    { <<>>, <<NL>> } \cup
    { JoinWith(ts, " ") \o <<NL>> : ts \in UNION { [1..k -> RunTokens] : k \in 1..MaxRunTokens } }

Files ==
    { [gz |-> g, holds |-> h, first |-> <<>>] : g \in BOOLEAN, h \in {"missing", "binary"} } \cup
    { [gz |-> g, holds |-> "text", first |-> f] : g \in BOOLEAN, f \in FirstLines }

\* s.split(): the runs of characters that are not whitespace
RECURSIVE SplitWhitespace(_, _)
SplitWhitespace(s, word) ==
    IF s = <<>> THEN (IF word = <<>> THEN <<>> ELSE <<word>>)
    ELSE IF Head(s) \in {" ", NL}
         THEN (IF word = <<>> THEN <<>> ELSE <<word>>) \o SplitWhitespace(Tail(s), <<>>)
         ELSE SplitWhitespace(Tail(s), Append(word, Head(s)))

\* s.startswith(prefix)
StartsWith(s, prefix) == Len(s) >= Len(prefix) /\ SubSeq(s, 1, Len(prefix)) = prefix

LineTokens == SplitWhitespace(line[1], <<>>)

InitRunid ==
    /\ fastq \in Files
    /\ line = None
    /\ ti = 0
    /\ runid = <<>>
    /\ routcome = "running"
    /\ rpc = "open"

\* lines 168-169: the module never imports gzip, so the name is unbound
OpenCompressed ==
    /\ rpc = "open"
    /\ fastq.gz
    /\ routcome' = "NameError"
    /\ rpc' = "done"
    /\ UNCHANGED <<fastq, line, ti, runid>>
    /\ UNCHANGED notRunid

\* line 173: open() of a file that is not there
OpenFails ==
    /\ rpc = "open"
    /\ ~fastq.gz
    /\ fastq.holds = "missing"
    /\ routcome' = "FileNotFoundError"
    /\ rpc' = "done"
    /\ UNCHANGED <<fastq, line, ti, runid>>
    /\ UNCHANGED notRunid

\* line 175: readline() of bytes that are not text
DecodeFails ==
    /\ rpc = "open"
    /\ ~fastq.gz
    /\ fastq.holds = "binary"
    /\ routcome' = "UnicodeDecodeError"
    /\ rpc' = "done"
    /\ UNCHANGED <<fastq, line, ti, runid>>
    /\ UNCHANGED notRunid

\* lines 173-175: readline() returns the first line, "" at the end of the file
ReadFirstLine ==
    /\ rpc = "open"
    /\ ~fastq.gz
    /\ fastq.holds = "text"
    /\ line' = Some(fastq.first)
    /\ rpc' = "tokens"
    /\ UNCHANGED <<fastq, ti, runid, routcome>>
    /\ UNCHANGED notRunid

\* lines 176-178: a token that starts with "runid"
RunidToken ==
    /\ rpc = "tokens"
    /\ ti < Len(LineTokens)
    /\ StartsWith(LineTokens[ti + 1], sRunid)
    /\ LET bits == SplitOn(LineTokens[ti + 1], "=")
       IN  IF Len(bits) < 2
           THEN routcome' = "IndexError" /\ rpc' = "done" /\ UNCHANGED <<runid, ti>>
           ELSE runid' = bits[2] /\ ti' = ti + 1 /\ UNCHANGED <<routcome, rpc>>
    /\ UNCHANGED <<fastq, line>>
    /\ UNCHANGED notRunid

\* lines 176-177: another token
OtherToken ==
    /\ rpc = "tokens"
    /\ ti < Len(LineTokens)
    /\ ~StartsWith(LineTokens[ti + 1], sRunid)
    /\ ti' = ti + 1
    /\ UNCHANGED <<fastq, line, runid, routcome, rpc>>
    /\ UNCHANGED notRunid

\* line 179
ReturnRunid ==
    /\ rpc = "tokens"
    /\ ti = Len(LineTokens)
    /\ routcome' = "returned"
    /\ rpc' = "done"
    /\ UNCHANGED <<fastq, line, ti, runid>>
    /\ UNCHANGED notRunid

NextRunid ==
    \/ OpenCompressed
    \/ OpenFails
    \/ DecodeFails
    \/ ReadFirstLine
    \/ RunidToken
    \/ OtherToken
    \/ ReturnRunid

InitR == InitRunid /\ IdleReadfq /\ IdleClassify /\ IdleDescription /\ IdleQuality
SpecRunid == InitR /\ [][NextRunid]_vars

----------------------------------------------------------------------------
(* Claims about get_runid *)

FileIsEmpty == fastq.holds = "text" /\ fastq.first = <<>>
NoRunidToken ==
    \A i \in 1..Len(SplitWhitespace(fastq.first, <<>>)) :
        ~StartsWith(SplitWhitespace(fastq.first, <<>>)[i], sRunid)

\* C8: get_runid fails, and returns no run identifier, whenever the file cannot be
\* opened, is empty or is not text; it returns the empty string only when a first
\* line was read and holds no token that begins with "runid".
C8_FailsOnUnreadableOrEmptyFile ==
    rpc = "done" =>
        /\ (fastq.holds \in {"missing", "binary"} \/ FileIsEmpty) => routcome /= "returned"
        /\ (routcome = "returned" /\ runid = <<>>) =>
              (fastq.holds = "text" /\ ~FileIsEmpty /\ NoRunidToken)

\* What the code does: it fails when the file cannot be opened or is not text (and
\* for every name that ends with ".gz"); of an empty file it returns "".
FailsOnUnreadableReturnsEmptyOnEmpty ==
    rpc = "done" =>
        /\ (fastq.holds \in {"missing", "binary"} \/ fastq.gz) => routcome /= "returned"
        /\ (FileIsEmpty /\ ~fastq.gz) => (routcome = "returned" /\ runid = <<>>)

====
